---- MODULE Spec2Model ----
(***************************************************************************)
(* Model of edge-tts2openAPI.py: the POST /v1/audio/speech handler         *)
(* (create_speech), the async generator generate_edge_audio that streams   *)
(* the provider's audio either raw or through an ffmpeg subprocess, the    *)
(* writer task write_audio, and the environment the code runs against:     *)
(* the edge_tts provider stream, the ffmpeg process with its stdin/stdout  *)
(* pipes, and the transport that pulls, closes or cancels the generator.   *)
(*                                                                         *)
(* One request is followed from acceptance to the end of its session.      *)
(* Data is counted in units of Granule bytes; a provider audio chunk is    *)
(* one unit, tagged with its position in the provider stream.              *)
(***************************************************************************)
EXTENDS Integers, Sequences, FiniteSets, TLC

\* ---------------------------------------------------------------- bounds
MaxChunks == 3      \* chunks the provider stream delivers at most
Granule   == 2048   \* bytes per modelled data unit
StdinCap  == 1      \* units the stdin pipe takes before drain() suspends
StdoutCap == 3      \* units the stdout pipe takes before ffmpeg blocks
StderrCap == 1      \* units the stderr pipe and its stream buffer take
MaxOther  == 1      \* units a second, concurrent session passes through
FilterBuf == 1      \* units ffmpeg holds that it has not written yet

\* ------------------------------------------------------ program constants
ReadSize  == 4096   \* proc.stdout.read(4096)
ReadUnits == ReadSize \div Granule

\* -------------------------------------------------------- request schema
\* voices are character sequences, so that str.lower() is computed
Nova    == <<"N", "o", "v", "a">>
nova    == <<"n", "o", "v", "a">>
alloy   == <<"a", "l", "l", "o", "y">>
echo    == <<"e", "c", "h", "o">>
shimmer == <<"s", "h", "i", "m", "m", "e", "r">>

UpperChars == <<"A", "E", "N", "S">>
LowerChars == <<"a", "e", "n", "s">>

\* str.lower() on one character
LowerChar(c) ==
    IF \E i \in DOMAIN UpperChars : UpperChars[i] = c
    THEN LowerChars[CHOOSE i \in DOMAIN UpperChars : UpperChars[i] = c]
    ELSE c

\* str.lower()
lower(s) == [i \in DOMAIN s |-> LowerChar(s[i])]

\* MODEL_CONFIG
MODEL_CONFIG ==
    [m \in {"tts-1", "tts-1-hd"} |->
        IF m = "tts-1"
        THEN [quality |-> "standard",
              allowed_formats |-> {"mp3"},
              voice_map |-> (nova :> "zh-CN-YunxiNeural" @@
                             alloy :> "en-US-GuyNeural" @@
                             echo :> "en-US-JennyNeural")]
        ELSE [quality |-> "enhanced",
              allowed_formats |-> {"mp3"},
              voice_map |-> (nova :> "zh-CN-YunjianNeural" @@
                             alloy :> "en-US-AriaNeural" @@
                             echo :> "en-US-DavisNeural")]]

\* the request bodies tried: TTSParameters, volume and speed in tenths (10 is
\* 1.0); the speed has no effect on the pipeline, which is followed for one
\* speed, and the rate is checked for every speed of the schema in steps of 0.1
Models  == {"tts-1", "tts-1-hd", "gpt-4o"}
Formats == {"mp3", "wav"}
Voices  == {Nova, shimmer}
Volumes == {5, 10, 20}
Speeds  == {13}
MinSpeed == 5
MaxSpeed == 20
AllSpeeds == MinSpeed..MaxSpeed

TTSParameters ==
    [model : Models, response_format : Formats, voice : Voices, volume : Volumes,
     speed : Speeds]

AnySpeedParameters ==
    [model : Models, response_format : Formats, voice : Voices, volume : Volumes,
     speed : AllSpeeds]

NoRequest == [model |-> "", response_format |-> "", voice |-> <<>>, volume |-> 0,
              speed |-> 0]

VARIABLES
    request,      \* the TTSParameters body of the request, NoRequest before it
    response,     \* what create_speech returned: "none", "HTTP400", "StreamingResponse"
    real_voice,   \* generate_edge_audio's real_voice
    pc,           \* where generate_edge_audio is
    exitReason,   \* how the try block of the filtered path was left
    error,        \* the exception generate_edge_audio raised: "none", ...
    voicesResult, \* what edge_tts.list_voices() did: "none", "ok", "missing", "raise"
    spawnResult,  \* what create_subprocess_exec did: "none", "ok", "missing"
    cancelSeen,   \* a CancelledError or GeneratorExit was thrown into the generator
    provided,     \* the chunks communicate.stream() has delivered, in order
    streamState,  \* communicate.stream(): "idle", "open", "exhausted", "raised"
    wpc,          \* where the writer task write_audio is
    writerLogged, \* write_audio logged an exception
    stdinPipe,    \* bytes written to proc.stdin that ffmpeg has not read yet
    stdinClosed,  \* proc.stdin.close() was called
    fstate,       \* the ffmpeg process: "none", "running", "exited"
    sawEOF,       \* ffmpeg has read end of input
    pendingOut,   \* output ffmpeg has produced and not written yet
    stdoutPipe,   \* bytes ffmpeg wrote to stdout that were not read yet
    stdoutEOF,    \* ffmpeg closed its stdout
    emitted,      \* every byte ffmpeg wrote to stdout, in order
    chunk,        \* the block the reader loop holds
    yielded,      \* the chunks the generator yielded, in order
    pulls,        \* times the transport asked the generator for a chunk
    reads,        \* completed proc.stdout.read calls that returned data
    spawnCount,   \* processes spawned
    exitCount,    \* process exits
    writeError,   \* stdin.drain() or stdin.wait_closed() raised in write_audio
    written,      \* the data of every stdin.write() call, in order
    writerCloses, \* stdin.close() calls made by write_audio
    crashed,      \* ffmpeg died before it had written all its output
    rate,         \* the rate string passed to edge_tts.Communicate, <<>> before
    stderrPipe,   \* units in the stderr pipe and its StreamReader, never read
    errPending,   \* 1 while ffmpeg is blocked in a write to stderr
    opc,          \* a second call of generate_edge_audio: where it is
    owpc,         \* the writer task of the second call
    ofstate,      \* the process of the second call: "none", "running", "exited"
    oStdinClosed, \* close() was called on the stdin of that process
    oReceived,    \* units that process has taken from its stdin
    oYielded      \* units the second call has yielded

vars == <<request, response, real_voice, pc, exitReason, error, voicesResult,
          spawnResult, cancelSeen,
          provided, streamState, wpc, writerLogged, stdinPipe, stdinClosed,
          fstate, sawEOF, pendingOut, stdoutPipe, stdoutEOF, emitted, chunk,
          yielded, pulls, reads, spawnCount, exitCount, writeError, written,
          writerCloses, crashed, rate, stderrPipe, errPending,
          opc, owpc, ofstate, oStdinClosed, oReceived, oYielded>>

genVars    == <<real_voice, pc, exitReason, error, cancelSeen, chunk, yielded,
                pulls, reads>>
envVars    == <<voicesResult, spawnResult>>
srcVars    == <<provided, streamState>>
writerVars == <<wpc, writerLogged>>
procVars   == <<fstate, sawEOF, pendingOut, stdoutPipe, stdoutEOF, emitted,
                spawnCount, exitCount>>
pipeInVars == <<stdinPipe, stdinClosed>>
wHist      == <<writeError, written, writerCloses>>
dVars      == <<stderrPipe, errPending>>
oVars      == <<opc, owpc, ofstate, oStdinClosed, oReceived, oYielded>>
xVars      == <<crashed, rate, dVars, oVars>>

Init ==
    /\ request = NoRequest
    /\ response = "none"
    /\ real_voice = ""
    /\ pc = "none"
    /\ exitReason = "none"
    /\ error = "none"
    /\ voicesResult = "none"
    /\ spawnResult = "none"
    /\ cancelSeen = FALSE
    /\ provided = <<>>
    /\ streamState = "idle"
    /\ wpc = "none"
    /\ writerLogged = FALSE
    /\ stdinPipe = <<>>
    /\ stdinClosed = FALSE
    /\ fstate = "none"
    /\ sawEOF = FALSE
    /\ pendingOut = <<>>
    /\ stdoutPipe = <<>>
    /\ stdoutEOF = FALSE
    /\ emitted = <<>>
    /\ chunk = <<>>
    /\ yielded = <<>>
    /\ pulls = 0
    /\ reads = 0
    /\ spawnCount = 0
    /\ exitCount = 0
    /\ writeError = FALSE
    /\ written = <<>>
    /\ writerCloses = 0
    /\ crashed = FALSE
    /\ rate = <<>>
    /\ stderrPipe = 0
    /\ errPending = 0
    /\ opc = "none"
    /\ owpc = "none"
    /\ ofstate = "none"
    /\ oStdinClosed = FALSE
    /\ oReceived = 0
    /\ oYielded = 0

\* ------------------------------------------------------------ create_speech
\* create_speech without its check of the format
ValidateNoFormat(req) ==
    IF req.model \notin DOMAIN MODEL_CONFIG THEN "model"
    ELSE IF lower(req.voice) \notin DOMAIN MODEL_CONFIG[req.model].voice_map
         THEN "voice"
    ELSE "ok"

\* the three checks of create_speech, in its order; "ok" when all pass
Validate(req) ==
    IF req.model \notin DOMAIN MODEL_CONFIG THEN "model"
    ELSE IF req.response_format \notin MODEL_CONFIG[req.model].allowed_formats
         THEN "format"
    ELSE IF lower(req.voice) \notin DOMAIN MODEL_CONFIG[req.model].voice_map
         THEN "voice"
    ELSE "ok"

\* POST /v1/audio/speech. A request that fails a check raises HTTPException(400).
\* Otherwise the handler returns StreamingResponse(generate_edge_audio(...)):
\* calling the async generator function runs none of its body.
CreateSpeech(reqs) ==
    /\ response = "none"
    /\ \E req \in reqs :
        /\ request' = req
        /\ IF Validate(req) = "ok"
           THEN response' = "StreamingResponse" /\ pc' = "created"
           ELSE response' = "HTTP400" /\ pc' = pc
    /\ UNCHANGED <<real_voice, exitReason, error, cancelSeen, chunk, yielded,
                   pulls, reads, envVars, wHist, xVars>>
    /\ UNCHANGED <<srcVars, writerVars, procVars, pipeInVars>>

create_speech == CreateSpeech(TTSParameters)

\* the handler, for a request with any speed of the schema
create_speech_any_speed == CreateSpeech(AnySpeedParameters)

\* ------------------------------------------------------ the provider stream
\* what one pull of communicate.stream() may do
ProviderOutcomes == {"audio", "WordBoundary", "end", "raise"}

\* the chunk delivered by an "audio" or "WordBoundary" pull; an audio chunk
\* carries one data unit, numbered by its position in the stream
ProviderChunk(o) ==
    [type |-> o, data |-> IF o = "audio" THEN <<Len(provided) + 1>> ELSE <<>>]

\* one pull of communicate.stream() with outcome o
ProviderNext(o) ==
    /\ streamState \in {"idle", "open"}
    /\ CASE o \in {"audio", "WordBoundary"} ->
                /\ Len(provided) < MaxChunks
                /\ provided' = Append(provided, ProviderChunk(o))
                /\ streamState' = "open"
         [] o = "end" ->
                /\ provided' = provided
                /\ streamState' = "exhausted"
         [] o = "raise" ->
                /\ provided' = provided
                /\ streamState' = "raised"

\* the data of the audio-tagged chunks of a chunk sequence, in order
RECURSIVE AudioData(_)
AudioData(cs) ==
    IF cs = <<>> THEN <<>>
    ELSE IF Head(cs).type = "audio"
         THEN <<Head(cs).data>> \o AudioData(Tail(cs))
         ELSE AudioData(Tail(cs))

\* all units of a sequence of chunks, concatenated
RECURSIVE Flatten(_)
Flatten(cs) == IF cs = <<>> THEN <<>> ELSE Head(cs) \o Flatten(Tail(cs))

Min(a, b) == IF a <= b THEN a ELSE b

\* ------------------------------------------------- generate_edge_audio
Ended == {"done", "raised", "cancelled", "closed"}

\* how the generator ends once the finally block is through: the exception
\* that entered the block, if any, propagates again
EndOf(reason) ==
    CASE reason = "normal" -> "done"
      [] reason = "cancel" -> "cancelled"
      [] reason = "close"  -> "closed"

\* the task has finished ("failed": with an exception write_audio did not
\* catch): cancel() does nothing and awaiting it does not suspend
WriterFinished == {"done", "cancelled", "failed"}

\* lines 135-138: await writer_task returns, or raises the exception the task
\* ended with (only CancelledError is passed)
AfterAwait(reason) == IF wpc = "failed" THEN "raised" ELSE EndOf(reason)

\* a teardown that cancels and awaits the task whatever its state
CancelWriterAlways(reason) ==
    pc' = "fin_await_writer" /\ wpc' = "cancelling"

\* lines 134-138: writer_task.cancel(); await writer_task, CancelledError passed
CancelWriter(reason) ==
    IF wpc \in WriterFinished
    THEN pc' = AfterAwait(reason) /\ wpc' = wpc
    ELSE pc' = "fin_await_writer" /\ wpc' = "cancelling"

\* lines 129-138 up to the first await that suspends: close stdin, then
\* proc.wait(), which returns at once when the process has exited
Teardown(reason) ==
    /\ stdinClosed' = TRUE
    /\ exitReason' = reason
    /\ IF fstate = "exited"
       THEN CancelWriter(reason)
       ELSE pc' = "fin_wait" /\ wpc' = wpc

\* line 83: config["voice_map"].get(voice.lower(), voice)
RealVoice(config, voice) ==
    IF lower(voice) \in DOMAIN config.voice_map
    THEN config.voice_map[lower(voice)]
    ELSE voice

\* the transport's first __anext__: lines 83-86, up to await list_voices();
\* create_speech passed voice = request.voice.lower()
Start ==
    /\ pc = "created"
    /\ real_voice' = RealVoice(MODEL_CONFIG[request.model], lower(request.voice))
    /\ pc' = "list_voices"
    /\ pulls' = pulls + 1
    /\ UNCHANGED <<request, response, envVars, wHist, xVars, exitReason, error, cancelSeen,
                   chunk, yielded, reads>>
    /\ UNCHANGED <<srcVars, writerVars, procVars, pipeInVars>>

\* line 100: if volume != 1.0
NeedsFilter(volume) == volume # 10

\* ---- lines 92-95 in IEEE-754 double arithmetic, on speeds given in tenths.
\* The double nearest to t/10 is m / 2^p with p = 52 for 1 <= t/10 < 2 and
\* p = 53 for 1/2 <= t/10 < 1; its error, in units of 1/(10 * 2^p), is -r or
\* 10 - r with r = (t * 2^p) mod 10.
\* 2^p mod 10, by repeated squaring
RECURSIVE TwoPowMod10(_)
TwoPowMod10(p) ==
    IF p = 0 THEN 1
    ELSE LET h == TwoPowMod10(p \div 2)
         IN  (h * h * (IF p % 2 = 1 THEN 2 ELSE 1)) % 10

MantissaBits == 52

\* p: the binary digits after the point of the double nearest to t/10
FractionBits(t) ==
    IF t < 10 THEN MantissaBits + 1
    ELSE IF t < 20 THEN MantissaBits ELSE MantissaBits - 1

\* the error of the double nearest to t/10, in units of 1/(10 * 2^53)
DoubleError(t) ==
    LET p == FractionBits(t)
        r == (t * TwoPowMod10(p)) % 10
        k == IF r < 5 THEN 0 - r ELSE 10 - r
    IN  IF p = MantissaBits + 1 THEN k
        ELSE IF p = MantissaBits THEN 2 * k ELSE 4 * k

RECURSIVE Log2Floor(_)
Log2Floor(n) == IF n < 2 THEN 0 ELSE 1 + Log2Floor(n \div 2)

RECURSIVE TwoPow(_)
TwoPow(j) == IF j = 0 THEN 1 ELSE 2 * TwoPow(j - 1)

Abs(n) == IF n < 0 THEN 0 - n ELSE n

\* int((speed - 1) * 100): speed - 1 is exact; the product is the integer
\* (t - 10) * 10 plus 10 * DoubleError(t) / 2^53, rounded to the nearest double
\* (half the spacing of the doubles next to an integer N is 2^Log2Floor(|N|)
\* in units of 2^-53); int() then truncates toward zero
IntOfProduct(t) ==
    LET N    == (t - 10) * 10
        pert == 10 * DoubleError(t)
        off  == N # 0 /\ Abs(pert) > TwoPow(Log2Floor(Abs(N)))
    IN  IF off /\ N > 0 /\ pert < 0 THEN N - 1
        ELSE IF off /\ N < 0 /\ pert > 0 THEN N + 1
        ELSE N

\* str() of an int, as tokens: a "-" for a negative number, then its magnitude
IntStr(n) == IF n < 0 THEN <<"-", 0 - n>> ELSE <<n>>

EnhancedMinSpeed == 8
EnhancedMaxSpeed == 15

Max(a, b) == IF a >= b THEN a ELSE b

\* lines 92-93: speed = max(0.8, min(speed, 1.5)) for quality "enhanced"
ClampedSpeed(config, speed) ==
    IF config.quality = "enhanced"
    THEN Max(EnhancedMinSpeed, Min(speed, EnhancedMaxSpeed))
    ELSE speed

\* line 95: f"+{int((speed - 1) * 100)}%" if speed != 1.0 else "+0%"
Rate(config, speed) ==
    LET sp == ClampedSpeed(config, speed)
    IN  IF sp # 10
        THEN <<"+">> \o IntStr(IntOfProduct(sp)) \o <<"%">>
        ELSE <<"+", 0, "%">>

\* edge_tts.list_voices() returns a catalog with or without real_voice, or raises
ListVoicesOutcomes == {"ok", "missing", "raise"}

\* lines 86-100: the catalog check, then the choice of the path
ListVoicesReturn ==
    /\ pc = "list_voices"
    /\ \E o \in ListVoicesOutcomes :
        /\ voicesResult' = o
        /\ CASE o = "raise"   -> error' = "provider" /\ pc' = "raised"
             [] o = "missing" -> error' = "voice" /\ pc' = "raised"
             [] o = "ok"      -> /\ error' = error
                                 /\ pc' = IF NeedsFilter(request.volume)
                                          THEN "spawn" ELSE "raw_next"
        /\ rate' = IF o = "ok"
                   THEN Rate(MODEL_CONFIG[request.model], request.speed)
                   ELSE rate
    /\ UNCHANGED <<request, response, spawnResult, real_voice, exitReason,
                   cancelSeen, chunk, yielded, pulls, reads, wHist, crashed, dVars,
                   oVars>>
    /\ UNCHANGED <<srcVars, writerVars, procVars, pipeInVars>>

\* a spawn failure that falls back to the raw stream
SpawnFallsBack ==
    /\ error' = error
    /\ pc' = "raw_next"
    /\ UNCHANGED <<fstate, spawnCount, wpc>>

\* lines 110-115 raise (ffmpeg is missing): lines 146-148 log and re-raise
SpawnFailed ==
    /\ error' = "spawn"
    /\ pc' = "raised"
    /\ UNCHANGED <<fstate, spawnCount, wpc>>

\* a session that never creates its writer task
NoWriterTask == wpc' = wpc

\* lines 118-120: writer_task = asyncio.create_task(write_audio(...))
StartWriter == wpc' = "next"

\* asyncio.create_subprocess_exec returns or raises; lines 110-120: on
\* success the writer task is created before any await
SpawnReturn ==
    /\ pc = "spawn"
    /\ \E o \in {"ok", "missing"} :
        /\ spawnResult' = o
        /\ IF o = "ok"
           THEN /\ fstate' = "running"
                /\ spawnCount' = spawnCount + 1
                /\ StartWriter
                /\ pc' = "read"
                /\ error' = error
           ELSE SpawnFailed
    /\ UNCHANGED <<request, response, voicesResult, real_voice, exitReason,
                   cancelSeen, chunk, yielded, pulls, reads, writerLogged,
                   wHist, xVars>>
    /\ UNCHANGED <<srcVars, pipeInVars, sawEOF, pendingOut, stdoutPipe,
                   stdoutEOF, emitted, exitCount>>

\* a read without a size limit
ReadAll(avail) == avail

\* line 125: read(4096) returns at most ReadSize of the bytes that are there
ReadLen(avail) == Min(ReadUnits, avail)

\* lines 125-127: proc.stdout.read(4096) returns a block, or b"" at end of output
ReadStdout ==
    /\ pc = "read"
    /\ IF stdoutPipe # <<>>
       THEN /\ chunk' = SubSeq(stdoutPipe, 1, ReadLen(Len(stdoutPipe)))
            /\ stdoutPipe' = SubSeq(stdoutPipe, ReadLen(Len(stdoutPipe)) + 1,
                                    Len(stdoutPipe))
            /\ reads' = reads + 1
            /\ pc' = "have_chunk"
            /\ UNCHANGED <<exitReason, stdinClosed, wpc>>
       ELSE /\ stdoutEOF
            /\ Teardown("normal")
            /\ UNCHANGED <<chunk, stdoutPipe, reads>>
    /\ UNCHANGED <<request, response, envVars, wHist, xVars, real_voice, error, cancelSeen,
                   yielded, pulls, writerLogged, stdinPipe>>
    /\ UNCHANGED <<srcVars, fstate, sawEOF, pendingOut, stdoutEOF, emitted,
                   spawnCount, exitCount>>

\* line 128: yield chunk
YieldChunk ==
    /\ pc = "have_chunk"
    /\ yielded' = Append(yielded, chunk)
    /\ chunk' = <<>>
    /\ pc' = "yield"
    /\ UNCHANGED <<request, response, envVars, wHist, xVars, real_voice, exitReason, error,
                   cancelSeen, pulls, reads>>
    /\ UNCHANGED <<srcVars, writerVars, procVars, pipeInVars>>

\* a loop that forwards every chunk
RawForwardsAll(c) == TRUE

\* line 143: if chunk["type"] == "audio"
RawForwards(c) == c.type = "audio"

\* lines 142-144: one step of the async for over communicate.stream()
RawNext ==
    /\ pc = "raw_next"
    /\ \E o \in ProviderOutcomes :
        /\ ProviderNext(o)
        /\ CASE o \in {"audio", "WordBoundary"} ->
                    IF RawForwards(ProviderChunk(o))
                    THEN /\ yielded' = Append(yielded, ProviderChunk(o).data)
                         /\ pc' = "raw_yield"
                         /\ error' = error
                    ELSE UNCHANGED <<yielded, pc, error>>
             [] o = "end" ->
                    /\ pc' = "done"
                    /\ UNCHANGED <<yielded, error>>
             [] o = "raise" ->
                    /\ error' = "provider"
                    /\ pc' = "raised"
                    /\ yielded' = yielded
    /\ UNCHANGED <<request, response, envVars, wHist, xVars, real_voice, exitReason,
                   cancelSeen, chunk, pulls, reads>>
    /\ UNCHANGED <<writerVars, procVars, pipeInVars>>

\* the transport asks for the next chunk: the generator resumes after its yield
Pull ==
    /\ pc \in {"yield", "raw_yield"}
    /\ pc' = IF pc = "yield" THEN "read" ELSE "raw_next"
    /\ pulls' = pulls + 1
    /\ UNCHANGED <<request, response, envVars, wHist, xVars, real_voice, exitReason, error, cancelSeen,
                   chunk, yielded, reads>>
    /\ UNCHANGED <<srcVars, writerVars, procVars, pipeInVars>>

\* a reader loop that catches what is thrown at it and reads on
ThrownIsSwallowed(reason) ==
    /\ pc' = "read"
    /\ UNCHANGED <<exitReason, stdinClosed, wpc>>

\* lines 123-129: an exception thrown into the try block (CancelledError at
\* the read, GeneratorExit at the yield) is not caught: the finally block runs
ThrownInTry(reason) == Teardown(reason)

\* the transport abandons the generator while it is suspended at a yield (or
\* before it started): aclose() throws GeneratorExit at the yield
Close ==
    /\ pc \in {"created", "yield", "raw_yield"}
    /\ cancelSeen' = TRUE
    /\ IF pc = "yield"
       THEN ThrownInTry("close")
       ELSE pc' = "closed" /\ UNCHANGED <<exitReason, stdinClosed, wpc>>
    /\ UNCHANGED <<request, response, envVars, wHist, xVars, real_voice, error, chunk, yielded, pulls,
                   reads, writerLogged, stdinPipe>>
    /\ UNCHANGED <<srcVars, procVars>>

\* the task driving the generator is cancelled while the generator is
\* suspended in an await: CancelledError is thrown at that await
CancelPoints == {"list_voices", "spawn", "raw_next", "read", "fin_wait",
                 "fin_await_writer"}

Cancel ==
    /\ pc \in CancelPoints
    /\ cancelSeen' = TRUE
    /\ CASE pc = "read" ->
                ThrownInTry("cancel")
         [] pc = "fin_await_writer" ->
                \* line 137: except asyncio.CancelledError: pass
                UNCHANGED <<pc, exitReason, stdinClosed, wpc>>
         [] OTHER ->
                pc' = "cancelled" /\ UNCHANGED <<exitReason, stdinClosed, wpc>>
    /\ UNCHANGED <<request, response, envVars, wHist, xVars, real_voice, error, chunk, yielded, pulls,
                   reads, writerLogged, stdinPipe>>
    /\ UNCHANGED <<srcVars, procVars>>

\* line 133: await proc.wait() returns; then lines 134-138
ProcWaitReturn ==
    /\ pc = "fin_wait"
    /\ fstate = "exited"
    /\ CancelWriter(exitReason)
    /\ UNCHANGED <<request, response, envVars, wHist, xVars, real_voice, exitReason, error, cancelSeen,
                   chunk, yielded, pulls, reads, writerLogged>>
    /\ UNCHANGED <<srcVars, procVars, pipeInVars>>

\* line 136: await writer_task returns once the task is cancelled
AwaitWriterReturn ==
    /\ pc = "fin_await_writer"
    /\ wpc \in WriterFinished
    /\ pc' = AfterAwait(exitReason)
    /\ UNCHANGED <<request, response, envVars, wHist, xVars, real_voice, exitReason, error, cancelSeen,
                   chunk, yielded, pulls, reads>>
    /\ UNCHANGED <<srcVars, writerVars, procVars, pipeInVars>>

\* ------------------------------------------------------------- write_audio
\* a write_audio without its except clause: the task ends with the exception
WriterExceptMissing ==
    /\ writerLogged' = writerLogged
    /\ wpc' = "failed"

\* lines 65-66: except Exception: the error is logged and the task ends
WriterExcept ==
    /\ writerLogged' = TRUE
    /\ wpc' = "done"

\* a loop that writes every chunk
WriterForwardsAll(c) == TRUE

\* line 59: if chunk["type"] == "audio" and stdin is not None
WriterForwards(c) == c.type = "audio"

\* a transport that takes writes after close()
WriteAcceptedAlways == TRUE

\* line 60: stdin.write() on a transport that is closing, or whose pipe is
\* broken, drops the data
WriteAccepted == ~stdinClosed /\ ~crashed

\* lines 58-66: one step of the async for: pull a chunk, write it; at the end
\* of the stream close stdin; an exception of the stream is logged
WriterNext ==
    /\ wpc = "next"
    /\ \E o \in ProviderOutcomes :
        /\ ProviderNext(o)
        /\ CASE o \in {"audio", "WordBoundary"} ->
                    IF WriterForwards(ProviderChunk(o))
                    THEN /\ written' = Append(written, ProviderChunk(o).data)
                         /\ stdinPipe' = IF WriteAccepted
                                         THEN stdinPipe \o ProviderChunk(o).data
                                         ELSE stdinPipe
                         /\ wpc' = "drain"
                         /\ UNCHANGED <<stdinClosed, writerLogged, writerCloses>>
                    ELSE UNCHANGED <<stdinPipe, wpc, stdinClosed, writerLogged,
                                     written, writerCloses>>
             [] o = "end" ->
                    /\ stdinClosed' = TRUE
                    /\ writerCloses' = writerCloses + 1
                    /\ wpc' = "wait_closed"
                    /\ UNCHANGED <<stdinPipe, writerLogged, written>>
             [] o = "raise" ->
                    /\ WriterExcept
                    /\ UNCHANGED <<stdinPipe, stdinClosed, written, writerCloses>>
    /\ UNCHANGED <<request, response, envVars, xVars, genVars, procVars,
                   writeError>>

\* line 61: await stdin.drain() returns when the pipe is below its high-water
\* mark; on a closed and flushed pipe, or a broken one, it raises
\* ConnectionResetError
WriterDrain ==
    /\ wpc = "drain"
    /\ IF (stdinClosed \/ crashed) /\ stdinPipe = <<>>
       THEN writeError' = TRUE /\ WriterExcept
       ELSE /\ Len(stdinPipe) <= StdinCap
            /\ wpc' = "next"
            /\ UNCHANGED <<writerLogged, writeError>>
    /\ UNCHANGED <<request, response, envVars, xVars, genVars, srcVars,
                   procVars, pipeInVars, written, writerCloses>>

\* line 64: await stdin.wait_closed() returns when the pipe is flushed; when
\* the pipe broke with data in the transport's buffer it raises
WriterWaitClosed ==
    /\ wpc = "wait_closed"
    /\ stdinPipe = <<>>
    /\ \E raises \in {FALSE, crashed} :
        IF raises
        THEN writeError' = TRUE /\ WriterExcept
        ELSE wpc' = "done" /\ UNCHANGED <<writerLogged, writeError>>
    /\ UNCHANGED <<request, response, envVars, xVars, genVars, srcVars,
                   procVars, pipeInVars, written, writerCloses>>

\* the CancelledError of writer_task.cancel() reaches write_audio at its await
WriterCancelled ==
    /\ wpc = "cancelling"
    /\ wpc' = "cancelled"
    /\ UNCHANGED <<request, response, envVars, wHist, xVars, genVars, srcVars, procVars, pipeInVars,
                   writerLogged>>

\* ------------------------------------------------------ the ffmpeg process
\* ffmpeg -i pipe:0 -af volume=V -f mp3 pipe:1: the output for one input unit
Transform(u) == 100 + u

\* what ffmpeg writes when it flushes at end of input
Trailer == 0

\* ffmpeg is blocked in a write to stderr
StderrBlocked == errPending = 1

\* line 114, stderr=PIPE, and no read of proc.stderr anywhere: ffmpeg writes a
\* unit of diagnostics; the pipe and the stream buffer take it or, when they
\* are full, the write blocks, and nothing ever empties them
FilterDiag ==
    /\ fstate = "running"
    /\ ~StderrBlocked
    /\ IF stderrPipe < StderrCap
       THEN stderrPipe' = stderrPipe + 1 /\ errPending' = errPending
       ELSE errPending' = 1 /\ stderrPipe' = stderrPipe
    /\ UNCHANGED <<request, response, envVars, wHist, crashed, rate, oVars,
                   genVars, srcVars, writerVars, pipeInVars, procVars>>

\* ffmpeg reads one unit of input; it does not read while its output is stuck
FilterRead ==
    /\ fstate = "running"
    /\ ~StderrBlocked
    /\ ~sawEOF
    /\ stdinPipe # <<>>
    /\ Len(pendingOut) < FilterBuf
    /\ pendingOut' = Append(pendingOut, Transform(Head(stdinPipe)))
    /\ stdinPipe' = Tail(stdinPipe)
    /\ UNCHANGED <<request, response, envVars, wHist, xVars, genVars, srcVars, writerVars, stdinClosed,
                   fstate, sawEOF, stdoutPipe, stdoutEOF, emitted, spawnCount,
                   exitCount>>

\* ffmpeg reads end of input: stdin was closed and everything written was read
FilterEof ==
    /\ fstate = "running"
    /\ ~StderrBlocked
    /\ ~sawEOF
    /\ stdinPipe = <<>>
    /\ stdinClosed
    /\ sawEOF' = TRUE
    /\ pendingOut' = Append(pendingOut, Trailer)
    /\ UNCHANGED <<request, response, envVars, wHist, xVars, genVars, srcVars, writerVars, pipeInVars,
                   fstate, stdoutPipe, stdoutEOF, emitted, spawnCount, exitCount>>

\* ffmpeg writes one unit to stdout; the write blocks while the pipe is full
FilterWrite ==
    /\ fstate = "running"
    /\ ~StderrBlocked
    /\ pendingOut # <<>>
    /\ Len(stdoutPipe) < StdoutCap
    /\ stdoutPipe' = Append(stdoutPipe, Head(pendingOut))
    /\ emitted' = Append(emitted, Head(pendingOut))
    /\ pendingOut' = Tail(pendingOut)
    /\ UNCHANGED <<request, response, envVars, wHist, xVars, genVars, srcVars, writerVars, pipeInVars,
                   fstate, sawEOF, stdoutEOF, spawnCount, exitCount>>

\* ffmpeg has written all its output after end of input and closes stdout
FilterCloseStdout ==
    /\ fstate = "running"
    /\ ~StderrBlocked
    /\ sawEOF
    /\ pendingOut = <<>>
    /\ ~stdoutEOF
    /\ stdoutEOF' = TRUE
    /\ UNCHANGED <<request, response, envVars, wHist, xVars, genVars, srcVars, writerVars, pipeInVars,
                   fstate, sawEOF, pendingOut, stdoutPipe, emitted, spawnCount,
                   exitCount>>

\* ffmpeg exits
FilterExit ==
    /\ fstate = "running"
    /\ ~StderrBlocked
    /\ stdoutEOF
    /\ fstate' = "exited"
    /\ exitCount' = exitCount + 1
    /\ UNCHANGED <<request, response, envVars, wHist, xVars, genVars, srcVars, writerVars, pipeInVars,
                   sawEOF, pendingOut, stdoutPipe, stdoutEOF, emitted, spawnCount>>

\* ffmpeg dies (killed, or it gives up on its input) before it has closed its
\* stdout: both pipes break, what was not written to stdout is lost
FilterCrash ==
    /\ fstate = "running"
    /\ ~stdoutEOF
    /\ fstate' = "exited"
    /\ exitCount' = exitCount + 1
    /\ crashed' = TRUE
    /\ UNCHANGED <<rate, dVars, oVars>>
    /\ stdoutEOF' = TRUE
    /\ pendingOut' = <<>>
    /\ stdinPipe' = <<>>
    /\ UNCHANGED <<request, response, envVars, wHist, genVars, srcVars,
                   writerVars, stdinClosed, sawEOF, stdoutPipe, emitted,
                   spawnCount>>

\* ------------------------------------- a second, concurrent filtered session
\* A second call of generate_edge_audio with volume # 1.0, followed coarsely:
\* its locals proc and writer_task are its own. What it does to a process it
\* does to the process its proc refers to.

\* everything of the first session
firstVars == <<request, response, envVars, wHist, crashed, rate, dVars,
               genVars, srcVars, writerVars, procVars, pipeInVars>>

\* a server that hands every call the process of the first session
PooledProc == "first"

\* lines 110-115: proc is the process create_subprocess_exec has just made
OtherProc == "other"

\* lines 110-120 in the second call: spawn, create the writer task
OtherSpawn ==
    /\ opc = "none"
    /\ opc' = "read"
    /\ owpc' = "running"
    /\ ofstate' = IF OtherProc = "other" THEN "running" ELSE ofstate
    /\ UNCHANGED <<oStdinClosed, oReceived, oYielded, firstVars>>

\* lines 58-61 in the second call: its writer task writes a unit to proc.stdin
OtherWrite ==
    /\ owpc = "running"
    /\ oReceived < MaxOther
    /\ oReceived' = oReceived + 1
    /\ IF OtherProc = "other"
       THEN ~oStdinClosed /\ UNCHANGED firstVars
       ELSE /\ WriteAccepted
            /\ stdinPipe' = Append(stdinPipe, MaxChunks + 1)
            /\ UNCHANGED <<request, response, envVars, wHist, crashed, rate,
                           dVars, genVars, srcVars, writerVars, procVars,
                           stdinClosed>>
    /\ UNCHANGED <<opc, owpc, ofstate, oStdinClosed, oYielded>>

\* stdin.close() on the process the second call's proc refers to
OtherCloseStdin ==
    IF OtherProc = "other"
    THEN oStdinClosed' = TRUE /\ UNCHANGED firstVars
    ELSE /\ stdinClosed' = TRUE
         /\ oStdinClosed' = oStdinClosed
         /\ UNCHANGED <<request, response, envVars, wHist, crashed, rate,
                        dVars, genVars, srcVars, writerVars, procVars,
                        stdinPipe>>

\* lines 62-66 in the second call: its writer task closes stdin at the end of
\* its stream, or ends on an exception without closing
OtherWriterEnd ==
    /\ owpc = "running"
    /\ owpc' = "done"
    /\ \E closes \in BOOLEAN :
        IF closes THEN OtherCloseStdin
        ELSE UNCHANGED <<oStdinClosed, firstVars>>
    /\ UNCHANGED <<opc, ofstate, oReceived, oYielded>>

\* lines 125-128 in the second call: read a unit from proc.stdout, yield it
OtherRead ==
    /\ opc = "read"
    /\ oYielded < MaxOther
    /\ oYielded' = oYielded + 1
    /\ IF OtherProc = "other"
       THEN oYielded < oReceived /\ UNCHANGED firstVars
       ELSE /\ stdoutPipe # <<>>
            /\ stdoutPipe' = Tail(stdoutPipe)
            /\ UNCHANGED <<request, response, envVars, wHist, crashed, rate,
                           dVars, genVars, srcVars, writerVars, pipeInVars,
                           fstate, sawEOF, pendingOut, stdoutEOF, emitted,
                           spawnCount, exitCount>>
    /\ UNCHANGED <<opc, owpc, ofstate, oStdinClosed, oReceived>>

\* the second call's read sees the end of its process's output
OtherSeesEof ==
    IF OtherProc = "other"
    THEN oStdinClosed /\ oYielded = oReceived
    ELSE stdoutEOF /\ stdoutPipe = <<>>

\* lines 129-138 in the second call, after end of output or a cancellation:
\* close stdin, the process exits, cancel the writer task if it still runs
OtherEnd ==
    /\ opc = "read"
    /\ \E reason \in {"normal", "cancel"} :
        /\ reason = "normal" => OtherSeesEof
        /\ opc' = EndOf(reason)
    /\ OtherCloseStdin
    /\ ofstate' = IF OtherProc = "other" THEN "exited" ELSE ofstate
    /\ owpc' = IF owpc = "running" THEN "cancelled" ELSE owpc
    /\ UNCHANGED <<oReceived, oYielded>>

OtherStep ==
    \/ OtherSpawn
    \/ OtherWrite
    \/ OtherWriterEnd
    \/ OtherRead
    \/ OtherEnd

\* ------------------------------------------------------------ specification
GeneratorStep ==
    \/ ListVoicesReturn
    \/ SpawnReturn
    \/ ReadStdout
    \/ YieldChunk
    \/ RawNext
    \/ ProcWaitReturn
    \/ AwaitWriterReturn

WriterStep ==
    \/ WriterNext
    \/ WriterDrain
    \/ WriterWaitClosed
    \/ WriterCancelled

FilterStep ==
    \/ FilterRead
    \/ FilterEof
    \/ FilterWrite
    \/ FilterCloseStdout
    \/ FilterExit

Next ==
    \/ create_speech
    \/ Start
    \/ Pull
    \/ Close
    \/ Cancel
    \/ GeneratorStep
    \/ WriterStep
    \/ FilterStep

Spec == Init /\ [][Next]_vars

\* the program with an ffmpeg that may die at any moment
CrashNext == Next \/ FilterCrash

CrashSpec == Init /\ [][CrashNext]_vars

\* the program with an ffmpeg that writes diagnostics (Spec is the program
\* with an ffmpeg that obeys -loglevel quiet and writes none)
DiagNext == Next \/ FilterDiag

DiagSpec == Init /\ [][DiagNext]_vars

\* the requests the first session is followed for next to a second session
ConcurrentParameters ==
    [model : {"tts-1"}, response_format : {"mp3"}, voice : {Nova},
     volume : {10, 20}, speed : Speeds]

create_speech_concurrent == CreateSpeech(ConcurrentParameters)

\* two requests served at the same time by the one event loop
TwoNext ==
    \/ create_speech_concurrent
    \/ Start
    \/ Pull
    \/ Close
    \/ Cancel
    \/ GeneratorStep
    \/ WriterStep
    \/ FilterStep
    \/ OtherStep

TwoSpec == Init /\ [][TwoNext]_vars

\* the handler and the start of the generator, for every speed of the schema
RateNext ==
    \/ create_speech_any_speed
    \/ Start
    \/ ListVoicesReturn

RateSpec == Init /\ [][RateNext]_vars

\* the event loop runs every task that can run, and the process runs; the
\* transport is not obliged to pull, close or cancel
FairSpec ==
    /\ Spec
    /\ WF_vars(GeneratorStep)
    /\ WF_vars(WriterStep)
    /\ WF_vars(FilterStep)

\* as FairSpec, with a consumer that pulls the next chunk whenever one was
\* yielded
LiveSpec == FairSpec /\ WF_vars(Pull)

\* ------------------------------------------------------------------ claims
\* the request was accepted and runs the bypass path / the filtered path
Accepted == response = "StreamingResponse"
Bypass   == Accepted /\ request.volume = 10
Filtered == Accepted /\ request.volume # 10

\* a filtered session has started: the process was spawned
SessionStarted == Filtered /\ spawnResult = "ok"

IsPrefix(a, b) == Len(a) <= Len(b) /\ SubSeq(b, 1, Len(a)) = a

\* C1: with volume = 1.0 no filter process is spawned and no writer task is
\* started, and the chunks yielded are exactly the data of the audio-tagged
\* chunks the provider delivered, in the provider's order, one yielded chunk
\* per audio chunk; when the generator completes the provider stream is
\* exhausted, so nothing was left out.
C1_BypassYieldsRawAudio ==
    Bypass =>
        /\ spawnCount = 0
        /\ fstate = "none"
        /\ spawnResult = "none"
        /\ wpc = "none"
        /\ stdinPipe = <<>> /\ emitted = <<>>
        /\ yielded = AudioData(provided)
        /\ (pc = "done" => streamState = "exhausted")

C1_Witness ==
    /\ Bypass
    /\ pc = "done"
    /\ Len(yielded) = 2
    /\ Len(provided) = 3

\* C2: a filtered request that reaches the pipeline has spawned exactly one
\* process, the process terminates at most once, and when the session has
\* ended (also by a cancel or a close) it has terminated exactly once.
C2_SpawnedOnceTerminatedOnce ==
    SessionStarted =>
        /\ spawnCount = 1
        /\ exitCount <= 1
        /\ (pc \in Ended => exitCount = 1)

\* C3: when a filtered session has ended, in whatever way, its filter
\* process has exited.
C3_ExitedBeforeEnd ==
    (SessionStarted /\ pc \in Ended) => fstate = "exited"

\* C4: once teardown waits for the process, the process exits (by itself or
\* by force), whatever the state of its stdout pipe: the wait does not last
\* forever (unless the generator is cancelled out of it).
C4_TeardownReachesExit ==
    (pc = "fin_wait") ~> (fstate = "exited" \/ pc \in Ended)

\* C5: when the provider stream has raised in a started filtered session and
\* the writer task has finished, the filter's stdin is closed (so that the
\* filter reads end of input and the reader loop reaches end of output).
C5_WriterClosesStdinOnSourceError ==
    (SessionStarted /\ streamState = "raised" /\ wpc = "done") => stdinClosed

\* C6: once a CancelledError or GeneratorExit has been thrown into a started
\* filtered session, teardown has begun (stdin is closed and the generator is
\* in or past the finally block), and from then on no read of stdout
\* completes and no chunk is yielded.
C6_CancelStopsReadsAndYields ==
    /\ []((SessionStarted /\ cancelSeen) =>
            /\ stdinClosed
            /\ pc \in {"fin_wait", "fin_await_writer"} \cup Ended)
    /\ [][(SessionStarted /\ cancelSeen) =>
            /\ reads' = reads
            /\ yielded' = yielded
            /\ chunk' = chunk
            /\ pulls' = pulls
            /\ Len(stdoutPipe') >= Len(stdoutPipe)]_vars

C6_Witness ==
    /\ SessionStarted
    /\ cancelSeen
    /\ exitReason = "cancel"
    /\ pc = "cancelled"
    /\ fstate = "exited"
    /\ yielded # <<>>
    /\ stdoutPipe # <<>>

\* C7: in a filtered session the yielded chunks, then the block held, then
\* the bytes still in the pipe are, concatenated, the bytes the filter
\* emitted, in emission order (so the yielded bytes are a prefix of them);
\* every block read has between one unit and ReadSize bytes; a read completes
\* only after a pull of its own, and at most one block is read but not yielded.
C7_YieldedIsPrefixOfEmitted ==
    Filtered =>
        /\ IsPrefix(Flatten(yielded), emitted)
        /\ Flatten(yielded) \o chunk \o stdoutPipe = emitted
        /\ \A i \in DOMAIN yielded :
                Len(yielded[i]) >= 1 /\ Len(yielded[i]) * Granule <= ReadSize
        /\ Len(chunk) * Granule <= ReadSize
        /\ reads <= pulls
        /\ reads - Len(yielded) \in {0, 1}
        /\ (reads - Len(yielded) = 1) = (chunk # <<>>)

C7_Witness ==
    /\ Filtered
    /\ pc = "have_chunk"
    /\ yielded # <<>>
    /\ Len(chunk) = ReadUnits
    /\ stdoutPipe # <<>>

\* the request fails one of the three checks the interface names
InvalidRequest ==
    /\ request # NoRequest
    /\ \/ request.model \notin {"tts-1", "tts-1-hd"}
       \/ request.response_format # "mp3"
       \/ lower(request.voice) \notin {alloy, echo, nova}

\* C8: a request with an unsupported model, format or voice is answered with
\* HTTP 400 and generate_edge_audio is never started for it: no provider
\* call, no subprocess, no writer task.
C8_InvalidRejectedBeforePipeline ==
    InvalidRequest =>
        /\ response = "HTTP400"
        /\ pc = "none"
        /\ pulls = 0
        /\ voicesResult = "none"
        /\ streamState = "idle" /\ provided = <<>>
        /\ spawnResult = "none" /\ spawnCount = 0 /\ fstate = "none"
        /\ wpc = "none"

C8_Witness ==
    /\ response = "HTTP400"
    /\ request.model = "tts-1"
    /\ request.response_format = "mp3"
    /\ request.voice = shimmer

\* C9: when the catalog check fails or the provider fails before the first
\* chunk, the client gets an error response instead of a streamed response,
\* no filter process is spawned and no chunk is emitted.
C9_PreStreamFailureIsErrorResponse ==
    (\/ voicesResult \in {"missing", "raise"}
     \/ (streamState = "raised" /\ provided = <<>>)) =>
        /\ response # "StreamingResponse"
        /\ spawnCount = 0
        /\ yielded = <<>>

\* C10: when the filter cannot be spawned the generator ends with the spawn
\* error, it has yielded nothing, the provider stream was never opened and
\* no writer task exists.
C10_SpawnFailureIsFailure ==
    (Filtered /\ spawnResult = "missing") =>
        /\ pc = "raised"
        /\ error = "spawn"
        /\ yielded = <<>>
        /\ streamState = "idle" /\ provided = <<>>
        /\ wpc = "none"
        /\ fstate = "none" /\ spawnCount = 0

C10_Witness ==
    /\ Filtered
    /\ spawnResult = "missing"
    /\ pc = "raised"
    /\ request.volume = 20

\* a write to the filter's stdin failed in the writer task
WriteFailed == SessionStarted /\ writeError

\* C11: when drain() or wait_closed() has raised in the writer task, the task
\* has logged it and ended, nothing is raised out of generate_edge_audio, what
\* was yielded is a prefix of what the filter emitted, and a session that has
\* ended went through the teardown; a session that ended without a cancel or
\* a close completed normally.
C11_WriteFailureEndsWriterOnly ==
    WriteFailed =>
        /\ wpc = "done"
        /\ writerLogged
        /\ pc # "raised"
        /\ error = "none"
        /\ IsPrefix(Flatten(yielded), emitted)
        /\ (pc \in Ended => stdinClosed /\ exitReason # "none")
        /\ (pc \in Ended /\ ~cancelSeen => pc = "done")

C11_Witness ==
    /\ WriteFailed
    /\ crashed
    /\ ~cancelSeen
    /\ pc = "done"
    /\ Len(written) = 3
    /\ Len(emitted) = 1
    /\ Len(yielded) = 1

\* the signs in a rate string
SignCount(r) == Cardinality({i \in DOMAIN r : r[i] \in {"+", "-"}})

\* the number a rate string with one sign stands for
RateValue(r) == IF r[1] = "-" THEN 0 - r[2] ELSE r[2]

\* the speed in effect: the requested one, clamped to [0.8, 1.5] for a model
\* of quality "enhanced"
EffectiveSpeed ==
    IF request.model = "tts-1-hd"
    THEN (IF request.speed < 8 THEN 8
          ELSE IF request.speed > 15 THEN 15 ELSE request.speed)
    ELSE request.speed

\* C12: the rate passed to the provider is a sign, a number and "%", with
\* exactly one sign, and the signed number is (speed - 1) * 100 for the speed
\* in effect.
C12_RateIsSignedPercentage ==
    (rate # <<>>) =>
        /\ Len(rate) = 3
        /\ SignCount(rate) = 1
        /\ rate[1] \in {"+", "-"}
        /\ rate[3] = "%"
        /\ RateValue(rate) = (EffectiveSpeed - 10) * 10

\* C13: when a started filtered session has ended, on whatever path (also a
\* cancellation that arrives while the teardown waits for the process), the
\* teardown has run through: stdin is closed, the process has exited, and the
\* writer task is finished or cancelled, never still running.
C13_TeardownCompleteAtReturn ==
    (SessionStarted /\ pc \in Ended) =>
        /\ stdinClosed
        /\ exitReason # "none"
        /\ wpc \in WriterFinished

\* the session was cancelled or closed by its consumer, or the provider
\* stream failed
Disturbed ==
    cancelSeen \/ exitReason = "close" \/ pc = "closed" \/ streamState = "raised"

\* the session has completed and has yielded all ffmpeg wrote, which is the
\* output for every unit written to it and the trailer; the writer task has
\* written the whole stream and closed stdin (the teardown may have cancelled
\* it in its wait for the closure)
Completed ==
    /\ pc = "done"
    /\ wpc \in {"done", "cancelled"}
    /\ writerCloses = 1
    /\ fstate = "exited"
    /\ streamState = "exhausted"
    /\ Len(emitted) = Len(Flatten(written)) + 1
    /\ Flatten(yielded) = emitted

\* C14: with bounded stdin and stdout pipes, a provider stream that ends
\* without failing, an ffmpeg that reads its input and exits after end of
\* input, and a consumer that keeps pulling, a started filtered session
\* eventually completes having yielded the whole filter output: the writer
\* task and the reader loop never block each other forever.
C14_StreamsToCompletion ==
    SessionStarted ~> (Completed \/ Disturbed)

\* the writer task waits in drain() on a full stdin pipe while the reader
\* waits in read() on an empty stdout pipe
C14_Witness ==
    /\ SessionStarted /\ ~Disturbed
    /\ wpc = "drain" /\ Len(stdinPipe) > StdinCap
    /\ pc = "read" /\ stdoutPipe = <<>> /\ ~stdoutEOF

\* C15: in a started filtered session without failure or cancellation, what
\* the writer task has written to stdin is the data of the audio-tagged chunks
\* the provider delivered, chunk by chunk in the provider's order, every write
\* is taken by the pipe, and the writer closes stdin once, exactly when the
\* provider stream is exhausted: after the last write, and not otherwise.
C15_WriterForwardsAudioThenCloses ==
    (SessionStarted /\ ~Disturbed) =>
        /\ written = AudioData(provided)
        /\ ~writeError
        /\ Len(Flatten(written)) =
               Len(stdinPipe) + Len(pendingOut) + Len(emitted)
               - (IF sawEOF THEN 1 ELSE 0)
        /\ writerCloses = (IF streamState = "exhausted" THEN 1 ELSE 0)
        /\ (writerCloses = 1 =>
               stdinClosed /\ wpc \in {"wait_closed", "done", "cancelling", "cancelled"})
        /\ (wpc = "drain" => writerCloses = 0)

C15_Witness ==
    /\ SessionStarted /\ ~Disturbed
    /\ pc = "done"
    /\ writerCloses = 1
    /\ Len(provided) = 3
    /\ Len(written) = 2

\* the units written by the writer task that did not reach ffmpeg
Dropped ==
    Len(Flatten(written)) + (IF sawEOF THEN 1 ELSE 0)
        - (Len(stdinPipe) + Len(pendingOut) + Len(emitted))

\* the teardown has started only after the reader saw the end of the output,
\* or because the session is terminated early; only the teardown cancels the
\* writer task, and only the writer task and the teardown close stdin
TeardownSequenced ==
    /\ (exitReason = "normal" => stdoutEOF /\ stdoutPipe = <<>>)
    /\ (exitReason = "cancel" => cancelSeen)
    /\ (exitReason \in {"cancel", "close"} => pc # "done")
    /\ (wpc \in {"cancelling", "cancelled"} => exitReason # "none")
    /\ (stdinClosed => exitReason # "none" \/ writerCloses = 1)

\* C16: before the teardown the reader loop leaves stdin and the writer task
\* alone and the writer task leaves stdout and what the reader holds alone;
\* the teardown starts only after the reader saw end of output or on early
\* termination; once the teardown has closed stdin nothing the writer still
\* writes reaches ffmpeg, and the late write does not make the session raise.
C16_DisjointChannelsUntilTeardown ==
    [][SessionStarted =>
        /\ (pc \in {"read", "have_chunk", "yield"} /\ pc' # pc
               /\ exitReason' = "none")
            => UNCHANGED <<stdinPipe, stdinClosed, wpc, written, writerCloses>>
        /\ (pc' = pc /\ <<wpc, written, provided>>' # <<wpc, written, provided>>)
            => UNCHANGED <<stdoutPipe, stdoutEOF, chunk, yielded, reads,
                           exitReason>>
        /\ TeardownSequenced /\ TeardownSequenced'
        /\ (exitReason # "none")
            => (Len(stdinPipe') <= Len(stdinPipe) /\ Dropped' >= Dropped)
        /\ pc' # "raised" /\ error' = "none"
    ]_vars

\* a write after the teardown closed stdin was dropped, and the session ended
\* through the whole teardown
C16_Witness ==
    /\ SessionStarted
    /\ exitReason = "close" /\ pc = "closed"
    /\ writerCloses = 0
    /\ Dropped = 1
    /\ wpc \in WriterFinished /\ fstate = "exited"

\* C17: when the writer task has closed stdin and finished, every step of the
\* teardown after a normal end of output (close stdin again, wait for the
\* process, cancel and await the finished task) changes nothing of stdin, the
\* writer task, the process or the output and raises nothing; with the
\* process already exited the generator completes in that one step.
C17_TeardownIdempotent ==
    [][(/\ SessionStarted
        /\ pc' # pc /\ exitReason' = "normal" /\ ~cancelSeen'
        /\ writerCloses = 1 /\ wpc = "done")
        =>
       (/\ UNCHANGED <<stdinPipe, stdinClosed, wpc, writerLogged, wHist,
                       fstate, exitCount, stdoutPipe, emitted, yielded>>
        /\ pc' \in {"fin_wait", "done"}
        /\ (fstate = "exited" => pc' = "done")
        /\ error' = "none")
    ]_vars

\* the session completed through a teardown that found stdin closed by the
\* writer, the writer task finished and the process exited
C17_Witness ==
    /\ SessionStarted /\ ~Disturbed
    /\ pc = "done" /\ exitReason = "normal"
    /\ wpc = "done" /\ writerCloses = 1 /\ ~writeError
    /\ fstate = "exited" /\ exitCount = 1
    /\ Len(yielded) = 2

\* C18: whatever ffmpeg writes to stderr, it is never blocked in a write to
\* that channel.
C18_NeverBlockedOnStderr ==
    SessionStarted => ~StderrBlocked

====
